---- MODULE Spec2Model ----
(***************************************************************************)
(* NeuralStyler (neural_styler.py): construction, fit, the callbacks the   *)
(* SciPy optimizer makes into the object (loss, loss_gradient, callback),  *)
(* and the snapshots save_image writes.                                    *)
(*                                                                         *)
(* Arrays are numpy arrays: a buffer on the heap plus a shape, so that a   *)
(* view (reshape) shares its buffer and a copy does not.  Pixel values are *)
(* floats in the source; here they are integers in units of 1/Scale.       *)
(* The convolutional network, its loss value and gradient, and the         *)
(* optimizer's choice of iterates are external: the loss value and the     *)
(* optimizer's moves are nondeterministic.                                 *)
(***************************************************************************)
EXTENDS Integers, Sequences, FiniteSets, TLC

(* ------------------------------ bounds -------------------------------- *)
\* largest picture height and width (pixels)
MaxH == 2
MaxW == 2
\* fit is called while self.iteration is below this value, and for no more
\* passes than take it there
MaxIteration == 2
\* the optimizer makes no callback once self.step has reached this value
MaxStep == 2
\* moves of the optimizer's iterate inside one minimize call
MaxMoves == 1
\* largest save_every_n_steps
MaxSaveEvery == 3

(* ------------------------- program constants -------------------------- *)
Channels == 3
\* channel means of post_process_image, in units of 1/Scale
MeanB == 103939
MeanG == 116779
MeanR == 123680
\* fixed-point unit of a float pixel value
Scale == 1000
\* np.random.seed(1000): the generator's state after import, abstracted
Seed == 0
\* modulus of the abstract generator
RngMod == 2

Means == <<MeanB, MeanG, MeanR>>

None == "None"
NoneFolder == <<"None">>
NoneArr == [buf |-> "none", shape |-> <<>>]

RECURSIVE Prod(_)
Prod(s) == IF s = <<>> THEN 1 ELSE Head(s) * Prod(Tail(s))

Min2(a, b) == IF a < b THEN a ELSE b
Max2(a, b) == IF a > b THEN a ELSE b

(* ------------------------------ files --------------------------------- *)
\* imread of an image file of h x w RGB pixels: every pixel and channel has
\* its own value, base + 10 * pixel + channel, so positions are recognisable.
imread(base, h, w) ==
    [shape |-> <<h, w, Channels>>,
     data  |-> [i \in 1..(h * w * Channels) |->
                   Scale * (base + 10 * ((i - 1) \div Channels) + ((i - 1) % Channels))]]

\* imresize(image, size=(h, w)): resampling, here nearest neighbour
imresize(img, h, w) ==
    [shape |-> <<h, w, Channels>>,
     data  |-> [i \in 1..(h * w * Channels) |->
                   LET c  == (i - 1) % Channels
                       p  == (i - 1) \div Channels
                       y  == p \div w
                       x  == p % w
                       sy == (y * img.shape[1]) \div h
                       sx == (x * img.shape[2]) \div w
                   IN  img.data[(sy * img.shape[2] + sx) * Channels + c + 1]]]

\* a reshape that does not compare the element counts
CanReshape_Unchecked(shape, newshape) == TRUE

\* numpy reshape of a value: possible iff the element counts agree
CanReshape(shape, newshape) == Prod(shape) = Prod(newshape)

\* preprocess_input: RGB -> BGR, then subtract the channel means
pre_process_image(data) ==
    [i \in 1..Len(data) |->
        LET c == (i - 1) % Channels
            p == (i - 1) \div Channels
        IN  data[p * Channels + (Channels - 1 - c) + 1] - Means[c + 1]]

\* post_process_image, first part: the means are added IN PLACE
AddMeans(data) ==
    [i \in 1..Len(data) |-> data[i] + Means[((i - 1) % Channels) + 1]]

\* post_process_image, second part: BGR -> RGB, clip to [0, 255], astype(uint8)
ClipFlip(data) ==
    [i \in 1..Len(data) |->
        LET c == (i - 1) % Channels
            p == (i - 1) \div Channels
            v == data[p * Channels + (Channels - 1 - c) + 1]
        IN  Max2(0, Min2(255 * Scale, v)) \div Scale]

(* --------------------------- numpy arrays ----------------------------- *)
\* An array is a reference [buf, shape] to a buffer of the heap.
Bufs == {"x", "canvas", "tmp", "picture", "style"}

\* a copy that is a view: the argument itself
copy_View(ref, fresh) == ref

\* ndarray.copy(): the result lives in a buffer of its own
copy(ref, fresh) == [buf |-> fresh, shape |-> ref.shape]

\* ravel() in place of flatten(): a one-dimensional view on the same buffer
flatten_Ravel(ref, fresh) == [buf |-> ref.buf, shape |-> <<Prod(ref.shape)>>]

\* ndarray.flatten(): always a copy, one-dimensional
flatten(ref, fresh) == [buf |-> fresh, shape |-> <<Prod(ref.shape)>>]

\* ndarray.reshape(): a view on the same buffer
reshape(ref, newshape) == [buf |-> ref.buf, shape |-> newshape]

\* the heap after the data of ref has been written to the buffer fresh
CopyInto(h, ref, fresh) == [h EXCEPT ![fresh] = h[ref.buf]]

(* --------------------------- numpy.random ----------------------------- *)
\* the global generator, abstracted to a full-period congruential stream
RngNext(s) == (5 * s + 3) % RngMod

RECURSIVE RngAt(_, _)
RngAt(s, k) == IF k = 0 THEN s ELSE RngAt(RngNext(s), k - 1)

\* np.random.randint(low, high): the values it can return (high is exclusive)
RandintRange(low, high) == low..(high - 1)

\* np.random.randint(low, high) in generator state s; needs low < high
randint(s, low, high) == low + (s % (high - low))

\* np.random.uniform(0, 256) in generator state s
uniform(s) == (Scale * 256 * s) \div RngMod

(* ------------------------------ state --------------------------------- *)
VARIABLES
    picture_file,         \* the picture on disk: [h, w]
    files,                \* the files imsave has written: path -> image
    writes,               \* number of imsave calls so far
    rng,                  \* state of the global numpy generator
    heap,                 \* buffer -> flat data
    pc,                   \* "new", "ctor_failed", "idle", "loop", "minimize"
    error,                \* exception raised by the last call of the API
    lastCall,             \* the method that ran last
    ctor_args,            \* arguments of the constructor call
    attrs,                \* TRUE once the constructor has set attributes
    destination_folder,
    save_every_n_steps,
    convnet,              \* the network created by the constructor
    e_image_shape,
    picture_image,
    style_image,
    styled_image,
    iteration,
    step,
    canvas,               \* fit: the canvas argument of the last call
    remaining,            \* fit: passes of `for _ in xrange(iterations)` left
    moves,                \* minimize: moves of the iterate made in this call
    xk,                   \* minimize: its iterate, an array
    x0,                   \* minimize: the starting point it was given
    lastEval,             \* result of the last loss / loss_gradient call
    carried               \* history: image of the latest callback, or the
                          \* canvas as fit created it if none happened since

vars == <<picture_file, files, writes, rng, heap, pc, error, lastCall, ctor_args,
          attrs, destination_folder, save_every_n_steps, convnet, e_image_shape,
          picture_image, style_image, styled_image, iteration, step, canvas,
          remaining, xk, moves, x0, lastEval, carried>>

objvars == <<attrs, destination_folder, save_every_n_steps, convnet, e_image_shape,
             picture_image, style_image, styled_image, iteration, step>>
fitvars == <<canvas, remaining>>
optvars == <<xk, moves, x0, lastEval>>

Number(v) == [nan |-> FALSE, v_loss |-> v]
NaN == [nan |-> TRUE, v_loss |-> 0]
NoEval == [shape |-> <<>>, fn |-> "none", computed |-> Number(0), returned |-> Number(0),
           printed |-> ""]
NoArgs == [destination_folder |-> NoneFolder, convnet |-> None,
           picture_image_filepath |-> None, style_image_filepath |-> None,
           weights_filepath |-> None]

Sizes == {[h |-> a, w |-> b] : a \in 1..MaxH, b \in 1..MaxW}

\* the style image on disk has the largest size, so that it is resized for
\* every smaller picture and used as it is for a picture of that size
StyleFileH == MaxH
StyleFileW == MaxW

PictureBase == 0
StyleBase == 100
CustomBase == 160

Init ==
    /\ picture_file \in Sizes
    /\ files = <<>>
    /\ writes = 0
    /\ rng = Seed
    /\ heap = [b \in Bufs |-> <<>>]
    /\ pc = "new"
    /\ error = "none"
    /\ lastCall = "none"
    /\ ctor_args = NoArgs
    /\ attrs = FALSE
    /\ destination_folder = NoneFolder
    /\ save_every_n_steps = 0
    /\ convnet = [arch |-> None, weights |-> None]
    /\ e_image_shape = <<>>
    /\ picture_image = NoneArr
    /\ style_image = NoneArr
    /\ styled_image = NoneArr
    /\ iteration = 0
    /\ step = 0
    /\ canvas = None
    /\ remaining = 0
    /\ xk = NoneArr
    /\ moves = 0
    /\ x0 = <<>>
    /\ lastEval = NoEval
    /\ carried = <<>>

(* --------------------------- NeuralStyler() --------------------------- *)
PicturePaths == {None, "picture.jpg"}
StylePaths == {None, "style.jpg"}
\* example.py passes a folder without a trailing separator
Folders == {NoneFolder, <<"/", "out">>, <<"/", "out", "/">>}
Convnets == {"VGG16", "VGG19", "VGG11"}
WeightPaths == {None, "weights.h5"}

\* __init__ without the check of the destination folder
ValidateInit_NoFolderCheck(a) ==
    IF \/ a.picture_image_filepath = None
       \/ a.style_image_filepath = None
    THEN "ValueError"
    ELSE IF a.convnet \notin {"VGG16", "VGG19"}
    THEN "ValueError"
    ELSE "none"

\* the two checks at the top of __init__: the exception raised, or "none"
ValidateInit(a) ==
    IF \/ a.picture_image_filepath = None
       \/ a.style_image_filepath = None
       \/ a.destination_folder = NoneFolder
    THEN "ValueError"
    ELSE IF a.convnet \notin {"VGG16", "VGG19"}
    THEN "ValueError"
    ELSE "none"

\* the style image as loaded: resized when its size is not the picture's
LoadStyle(h, w) ==
    LET original == imread(StyleBase, StyleFileH, StyleFileW)
    IN  IF original.shape[1] # h \/ original.shape[2] # w
        THEN imresize(original, h, w)
        ELSE original

Construct(a, n) ==
    /\ pc = "new"
    /\ ctor_args' = a
    /\ lastCall' = "__init__"
    /\ error' = ValidateInit(a)
    /\ IF ValidateInit(a) # "none"
       THEN /\ pc' = "ctor_failed"
            /\ UNCHANGED <<objvars, heap>>
       ELSE LET original_picture_image == imread(PictureBase, picture_file.h, picture_file.w)
                shape == <<1, original_picture_image.shape[1],
                           original_picture_image.shape[2], Channels>>
                original_style_image == LoadStyle(shape[2], shape[3])
            IN  /\ pc' = "idle"
                /\ attrs' = TRUE
                /\ destination_folder' = a.destination_folder
                /\ save_every_n_steps' = n
                /\ iteration' = 0
                /\ step' = 0
                /\ styled_image' = NoneArr
                /\ convnet' = [arch |-> a.convnet,
                               weights |-> IF a.weights_filepath = None
                                           THEN "imagenet" ELSE a.weights_filepath]
                /\ e_image_shape' = shape
                /\ picture_image' = [buf |-> "picture", shape |-> shape]
                /\ style_image' = [buf |-> "style", shape |-> shape]
                /\ heap' = [heap EXCEPT
                              !["picture"] = pre_process_image(original_picture_image.data),
                              !["style"] = pre_process_image(original_style_image.data)]
    /\ UNCHANGED <<picture_file, files, writes, rng, fitvars, optvars, carried>>

(* ------------------------------- fit ---------------------------------- *)
Canvases == {"random", "random_from_style", "random_from_picture", "style",
             "picture", "custom"}
CanvasArgs == Canvases \cup {"noise"}
CustomPaths == {None, "same.jpg", "transposed.jpg", "wider.jpg"}
\* what np.ndarray(shape=...) may hold before it is written: any memory
Garbage == {0, 7 * Scale}

\* fit without the check of the canvas argument
ValidateCanvas_Lenient(cv) == "none"

\* the check at the top of fit: the exception raised, or "none"
ValidateCanvas(cv) ==
    IF cv \notin {"random", "random_from_style", "random_from_picture", "style",
                  "picture", "custom"}
    THEN "ValueError"
    ELSE "none"

\* the size of a custom canvas file, for a picture of h x w
CustomDims(path, h, w) ==
    IF path = "same.jpg" THEN [h |-> h, w |-> w]
    ELSE IF path = "transposed.jpg" THEN [h |-> w, w |-> h]
    ELSE [h |-> h, w |-> w + 1]

\* canvas 'random': one uniform draw per element, then pre_process_image
RandomCanvas(s, n) == pre_process_image([i \in 1..n |-> uniform(RngAt(s, i - 1))])

\* the positions of the source image the loop of fit can draw for a pixel
SourceColumns(w) == RandintRange(0, w - 1)
SourceRows(h) == RandintRange(0, h - 1)

\* canvas 'random_from_style' / 'random_from_picture': the loop over x, then
\* y, draws x_p and then y_p for every pixel and copies the source pixel
RandomFrom(src, s, h, w) ==
    [i \in 1..(h * w * Channels) |->
        LET c   == (i - 1) % Channels
            p   == (i - 1) \div Channels
            y   == p \div w
            x   == p % w
            k   == x * h + y
            x_p == randint(RngAt(s, 2 * k), 0, w - 1)
            y_p == randint(RngAt(s, 2 * k + 1), 0, h - 1)
        IN  src[(y_p * w + x_p) * Channels + c + 1]]

\* lines 216-236: the canvas initialisation, as [ref, rng, heap, err, assigned];
\* g is what the uninitialised array of line 228 holds
CanvasInit(cv, path, g) ==
    LET h == picture_image.shape[2]
        w == picture_image.shape[3]
        n == Prod(e_image_shape)
        fresh == [buf |-> "canvas", shape |-> e_image_shape]
    IN  IF cv = "random"
        THEN [ref |-> fresh, rng |-> RngAt(rng, n),
              heap |-> [heap EXCEPT !["canvas"] = RandomCanvas(rng, n)],
              err |-> "none", assigned |-> TRUE]
        ELSE IF cv = "style"
        THEN [ref |-> copy(style_image, "canvas"), rng |-> rng,
              heap |-> CopyInto(heap, style_image, "canvas"),
              err |-> "none", assigned |-> TRUE]
        ELSE IF cv = "picture"
        THEN [ref |-> copy(picture_image, "canvas"), rng |-> rng,
              heap |-> CopyInto(heap, picture_image, "canvas"),
              err |-> "none", assigned |-> TRUE]
        ELSE IF cv = "custom"
        THEN IF path = None
             THEN [ref |-> styled_image, rng |-> rng,
              heap |-> heap,
              err |-> "AttributeError", assigned |-> FALSE]
             ELSE LET d   == CustomDims(path, h, w)
                      img == imread(CustomBase, d.h, d.w)
                  IN  IF CanReshape(img.shape, e_image_shape)
                      THEN [ref |-> fresh, rng |-> rng,
              heap |-> [heap EXCEPT !["canvas"] = pre_process_image(img.data)],
              err |-> "none", assigned |-> TRUE]
                      ELSE [ref |-> styled_image, rng |-> rng,
              heap |-> heap,
              err |-> "ValueError", assigned |-> FALSE]
        ELSE LET src  == IF cv = "random_from_style" THEN heap[style_image.buf]
                         ELSE heap[picture_image.buf]
                 raw  == [heap EXCEPT !["canvas"] = [i \in 1..n |-> g]]
             IN  IF w - 1 <= 0
                 THEN [ref |-> fresh, rng |-> rng,
              heap |-> raw,
              err |-> "ValueError", assigned |-> TRUE]
                 ELSE IF h - 1 <= 0
                 THEN [ref |-> fresh, rng |-> RngNext(rng),
              heap |-> raw,
              err |-> "ValueError", assigned |-> TRUE]
                 ELSE [ref |-> fresh, rng |-> RngAt(rng, 2 * h * w),
              heap |-> [raw EXCEPT !["canvas"] = RandomFrom(src, rng, h, w)],
              err |-> "none", assigned |-> TRUE]

\* fit, from the call to the top of the loop
FitStart(iterations, cv, path, g) ==
    /\ pc = "idle"
    /\ iteration < MaxIteration
    /\ iteration + iterations <= MaxIteration
    /\ canvas' = cv
    /\ lastCall' = "fit"
    /\ IF ValidateCanvas(cv) # "none"
       THEN /\ error' = ValidateCanvas(cv)
            /\ UNCHANGED <<pc, styled_image, heap, rng, remaining, carried>>
       ELSE LET r == CanvasInit(cv, path, g)
            IN  /\ error' = r.err
                /\ styled_image' = r.ref
                /\ heap' = r.heap
                /\ rng' = r.rng
                /\ carried' = IF r.assigned THEN r.heap[r.ref.buf] ELSE carried
                /\ IF r.err = "none"
                   THEN /\ pc' = "loop"
                        /\ remaining' = iterations
                   ELSE UNCHANGED <<pc, remaining>>
    /\ UNCHANGED <<picture_file, files, writes, ctor_args, attrs, destination_folder,
                   save_every_n_steps, convnet, e_image_shape, picture_image,
                   style_image, iteration, step, optvars>>

(* ---------------------------- save_image ----------------------------- *)
\* a file name without the iteration counter
snapshot_path_NoIteration(folder, st, it) == folder \o <<"img_", ToString(st), ".jpg">>

\* the file name save_image builds: plain string concatenation
snapshot_path(folder, st, it) ==
    folder \o <<"img_", ToString(st), "_", ToString(it), ".jpg">>

\* post_process_image(image): [heap, result]; the means are added to the
\* argument's own buffer, the result is a new uint8 image without axis 0
post_process_image(h, ref) ==
    LET added == AddMeans(h[ref.buf])
    IN  [heap   |-> [h EXCEPT ![ref.buf] = added],
         result |-> [shape |-> Tail(ref.shape), data |-> ClipFlip(added)]]

\* save_image(image) with self.step = st and self.iteration = it:
\* [files, heap] after imsave; the temporary copy is released
save_image(h, fs, image, st, it) ==
    LET view == reshape(image, e_image_shape)
        tmp  == copy(view, "tmp")
        pp   == post_process_image(CopyInto(h, view, "tmp"), tmp)
    IN  [files |-> (snapshot_path(destination_folder, st, it) :> pp.result) @@ fs,
         heap  |-> [pp.heap EXCEPT !["tmp"] = <<>>]]

(* ----------------------- the loop of fit, minimize -------------------- *)
LossValues == {Number(5), NaN}
Deltas == {Scale}

\* loss that replaces a NaN by zero
loss_NanToZero(v_loss) ==
    [returned |-> IF v_loss.nan THEN Number(0) ELSE v_loss,
     printed |-> IF v_loss.nan THEN "NaN Loss function value" ELSE "",
     raised |-> "none"]

\* loss(image), v_loss being what self.loss_function computes for image:
\* what it raises, returns and prints
loss(v_loss) ==
    [returned |-> v_loss,
     printed |-> IF v_loss.nan THEN "NaN Loss function value" ELSE "",
     raised |-> "none"]

\* loss_gradient(image): a flat float64 array of the size of the image
loss_gradient(image) == <<Prod(image.shape)>>

\* one pass of the for loop, up to the call of minimize (lines 248-254)
IterBegin ==
    /\ pc = "loop"
    /\ remaining > 0
    /\ remaining' = remaining - 1
    /\ iteration' = iteration + 1
    /\ xk' = flatten(styled_image, "x")
    /\ heap' = CopyInto(heap, styled_image, "x")
    /\ x0' = heap[styled_image.buf]
    /\ moves' = 0
    /\ lastEval' = NoEval
    /\ pc' = "minimize"
    /\ lastCall' = "minimize"
    /\ UNCHANGED <<picture_file, files, writes, rng, error, ctor_args, attrs,
                   destination_folder, save_every_n_steps, convnet, e_image_shape,
                   picture_image, style_image, styled_image, step, canvas, carried>>

\* minimize evaluates its objective where it has not yet: at its starting
\* point and after a move of its iterate
AtFreshPoint == lastCall \in {"minimize", "move", "loss", "loss_gradient"}

\* minimize evaluates fun=self.loss
OptLoss(v) ==
    /\ pc = "minimize"
    /\ AtFreshPoint
    /\ LET r == loss(v)
       IN  /\ lastEval' = [shape |-> <<>>, fn |-> "loss", computed |-> v,
                           returned |-> r.returned, printed |-> r.printed]
           /\ IF r.raised = "none"
              THEN UNCHANGED <<pc, error, heap, xk, moves, x0>>
              ELSE /\ pc' = "idle"
                   /\ error' = r.raised
                   /\ heap' = [heap EXCEPT !["x"] = <<>>]
                   /\ xk' = NoneArr
                   /\ moves' = 0
                   /\ x0' = <<>>
    /\ lastCall' = "loss"
    /\ UNCHANGED <<picture_file, files, writes, rng, ctor_args, objvars, fitvars, carried>>

\* minimize evaluates jac=self.loss_gradient
OptGradient ==
    /\ pc = "minimize"
    /\ AtFreshPoint
    /\ lastEval' = [shape |-> loss_gradient(xk), fn |-> "loss_gradient",
                    computed |-> Number(0), returned |-> Number(0), printed |-> ""]
    /\ lastCall' = "loss_gradient"
    /\ UNCHANGED <<picture_file, files, writes, rng, heap, pc, error, ctor_args,
                   objvars, fitvars, xk, moves, x0, carried>>

\* minimize moves its iterate
OptMove(d) ==
    /\ pc = "minimize"
    /\ moves < MaxMoves
    /\ moves' = moves + 1
    /\ heap' = [heap EXCEPT ![xk.buf] = [i \in 1..Len(heap[xk.buf]) |-> heap[xk.buf][i] + d]]
    /\ lastEval' = NoEval
    /\ lastCall' = "move"
    /\ UNCHANGED <<picture_file, files, writes, rng, pc, error, ctor_args,
                   objvars, fitvars, xk, x0, carried>>

\* callback that saves after its first call only
SaveDue_FirstOnly(st, n) == st = 1

\* self.step % self.save_every_n_steps raises for save_every_n_steps = 0
SaveDue(st, n) == st = 1 \/ st % n = 0
SaveRaises(st, n) == st # 1 /\ n = 0

\* minimize calls callback(xk) with its iterate (lines 278-286)
OptCallback ==
    /\ pc = "minimize"
    /\ step < MaxStep
    /\ LET image == xk
           h1    == CopyInto(heap, image, "canvas")
       IN  /\ step' = step + 1
           /\ styled_image' = copy(image, "canvas")
           /\ carried' = heap[image.buf]
           /\ IF SaveRaises(step + 1, save_every_n_steps)
              THEN /\ error' = "ZeroDivisionError"
                   /\ pc' = "idle"
                   /\ heap' = [h1 EXCEPT !["x"] = <<>>]
                   /\ xk' = NoneArr
                   /\ moves' = 0
                   /\ x0' = <<>>
                   /\ UNCHANGED <<files, writes>>
              ELSE IF SaveDue(step + 1, save_every_n_steps)
              THEN LET r == save_image(h1, files, image, step + 1, iteration)
                   IN  /\ heap' = r.heap
                       /\ files' = r.files
                       /\ writes' = writes + 1
                       /\ UNCHANGED <<pc, error, xk, moves, x0>>
              ELSE /\ heap' = h1
                   /\ UNCHANGED <<files, writes, pc, error, xk, moves, x0>>
    /\ lastEval' = NoEval
    /\ lastCall' = "callback"
    /\ UNCHANGED <<picture_file, rng, ctor_args, attrs, destination_folder,
                   save_every_n_steps, convnet, e_image_shape, picture_image,
                   style_image, iteration, fitvars>>

\* minimize returns, its result is dropped and its arrays are released, and
\* the pass ends with self.save_image(self.styled_image) (lines 254-257)
OptReturn ==
    /\ pc = "minimize"
    /\ LET r == save_image(heap, files, styled_image, step, iteration)
       IN  /\ heap' = [r.heap EXCEPT !["x"] = <<>>]
           /\ files' = r.files
           /\ writes' = writes + 1
    /\ pc' = "loop"
    /\ xk' = NoneArr
    /\ moves' = 0
    /\ x0' = <<>>
    /\ lastEval' = NoEval
    /\ lastCall' = "save_image"
    /\ UNCHANGED <<picture_file, rng, error, ctor_args, objvars, fitvars, carried>>

\* the loop is exhausted and fit returns
FitReturn ==
    /\ pc = "loop"
    /\ remaining = 0
    /\ pc' = "idle"
    /\ lastCall' = "return"
    /\ UNCHANGED <<picture_file, files, writes, rng, heap, error, ctor_args,
                   objvars, fitvars, optvars, carried>>

\* every argument combination of the constructor
ConstructAny ==
    \E pp \in PicturePaths, sp \in StylePaths, f \in Folders, c \in Convnets,
       wp \in WeightPaths, n \in 0..MaxSaveEvery :
       Construct([destination_folder |-> f, convnet |-> c,
                  picture_image_filepath |-> pp, style_image_filepath |-> sp,
                  weights_filepath |-> wp], n)

\* the constructor as example.py calls it, with any destination folder, a
\* picture path that may be missing and a convnet name that may be wrong
ConstructExample ==
    \E pp \in PicturePaths, f \in Folders, c \in {"VGG16", "VGG11"},
       n \in 0..MaxSaveEvery :
       Construct([destination_folder |-> f, convnet |-> c,
                  picture_image_filepath |-> pp, style_image_filepath |-> "style.jpg",
                  weights_filepath |-> None], n)

Next ==
    \/ ConstructExample
    \/ \E it \in 0..MaxIteration, cv \in CanvasArgs :
          \E path \in (IF cv = "custom" THEN CustomPaths ELSE {None}),
             g \in (IF cv \in {"random_from_style", "random_from_picture"}
                    THEN Garbage ELSE {0}) :
             FitStart(it, cv, path, g)
    \/ IterBegin
    \/ \E v \in LossValues : OptLoss(v)
    \/ OptGradient
    \/ \E d \in Deltas : OptMove(d)
    \/ OptCallback
    \/ OptReturn
    \/ FitReturn

Spec == Init /\ [][Next]_vars

\* the constructor alone, over all its argument combinations
SpecInit == Init /\ [][ConstructAny]_vars

(* ============================ properties ============================== *)

(* ---- C1 ---- *)
C1_Invalid ==
    \/ ctor_args.picture_image_filepath = None
    \/ ctor_args.style_image_filepath = None
    \/ ctor_args.destination_folder = NoneFolder
    \/ ctor_args.convnet \notin {"VGG16", "VGG19"}

\* C1: a constructor call with a missing picture path, style path or
\* destination folder, or with a convnet other than VGG16 and VGG19, fails
\* with ValueError before a network is created, an image is loaded or an
\* attribute is set; a call with all three present and an allowed convnet
\* raises no ValueError.
C1_ConstructorValidates ==
    lastCall = "__init__" =>
        IF C1_Invalid
        THEN /\ pc = "ctor_failed"
             /\ error = "ValueError"
             /\ ~attrs
             /\ convnet.arch = None
             /\ picture_image = NoneArr /\ style_image = NoneArr
             /\ styled_image = NoneArr
             /\ e_image_shape = <<>>
             /\ \A b \in Bufs : heap[b] = <<>>
        ELSE /\ pc = "idle"
             /\ error = "none"
             /\ attrs
             /\ convnet.arch = ctor_args.convnet

C1_Witness ==
    /\ pc = "ctor_failed"
    /\ ctor_args.picture_image_filepath # None
    /\ ctor_args.style_image_filepath # None
    /\ ctor_args.destination_folder = NoneFolder
    /\ ctor_args.convnet = "VGG19"

(* ---- C2 ---- *)
\* C2: a fit call whose canvas is none of the six policies raises ValueError
\* and changes nothing: styled_image, iteration and step keep their values,
\* the optimizer is not invoked and no snapshot is written.
C2_BadCanvasLeavesState ==
    [][(lastCall' = "fit" /\ canvas' \notin {"random", "random_from_style",
                                             "random_from_picture", "style",
                                             "picture", "custom"})
        => /\ error' = "ValueError"
           /\ pc' = "idle"
           /\ UNCHANGED <<styled_image, heap, iteration, step, files, writes,
                          rng, remaining, xk, carried>>]_vars

C2_Witness ==
    /\ lastCall = "fit"
    /\ canvas = "noise"
    /\ error = "ValueError"
    /\ styled_image.buf = "canvas"
    /\ step > 0

(* ---- C3 ---- *)
\* C3: loss returns the value it computed, NaN included, and for a NaN only
\* prints a message: it raises nothing and changes none of styled_image,
\* step and iteration, nor anything else the loop of fit reads, so minimize
\* can go on and return exactly as after a numeric loss.
C3_NanLossOnlyLogged ==
    /\ [][lastCall' = "loss"
          => /\ lastEval'.returned = lastEval'.computed
             /\ lastEval'.computed.nan => lastEval'.printed = "NaN Loss function value"
             /\ pc' = "minimize"
             /\ UNCHANGED <<error, styled_image, step, iteration, heap, files,
                            writes, remaining, xk, moves, x0, carried>>]_vars
    /\ [](lastCall = "loss" => ENABLED OptReturn)

C3_Witness ==
    /\ lastCall = "loss"
    /\ lastEval.computed.nan
    /\ pc = "minimize"
    /\ step > 0

(* ---- C4 ---- *)
IsMultiple(a, n) == \E k \in 0..a : a = k * n

\* C4: in every callback whose incremented step counter is a multiple of
\* save_every_n_steps, that callback writes a snapshot of the image it was
\* passed, under the name of the new step and the current iteration,
\* whichever pass or fit call the step belongs to.
C4_SnapshotEveryNSteps ==
    [][(lastCall' = "callback" /\ IsMultiple(step', save_every_n_steps))
        => LET p == destination_folder
                        \o <<"img_", ToString(step'), "_", ToString(iteration), ".jpg">>
           IN  /\ step' = step + 1
               /\ writes' = writes + 1
               /\ p \in DOMAIN files'
               /\ files'[p] = [shape |-> Tail(e_image_shape),
                               data |-> ClipFlip(AddMeans(heap[xk.buf]))]]_vars

C4_Witness ==
    /\ lastCall = "callback"
    /\ save_every_n_steps = 2
    /\ step = 2
    /\ iteration = 2
    /\ writes = 3
    /\ (destination_folder \o <<"img_", "1", "_", "1", ".jpg">>) \in DOMAIN files
    /\ (destination_folder \o <<"img_", "2", "_", "2", ".jpg">>) \in DOMAIN files

(* ---- C5 ---- *)
IsSeparator(t) == t \in {"/", "\\"}

\* index of the last separator of a path, 0 if it has none
LastSeparator(path) ==
    LET idx == {i \in 1..Len(path) : IsSeparator(path[i])}
    IN  IF idx = {} THEN 0 ELSE CHOOSE i \in idx : \A j \in idx : j <= i

\* the directory a path names a file in, and the file's name
Dirname(path) ==
    IF LastSeparator(path) <= 1 THEN SubSeq(path, 1, LastSeparator(path))
    ELSE SubSeq(path, 1, LastSeparator(path) - 1)
Basename(path) == SubSeq(path, LastSeparator(path) + 1, Len(path))

\* a folder name without its trailing separator
FolderName(folder) ==
    IF Len(folder) > 1 /\ IsSeparator(folder[Len(folder)])
    THEN SubSeq(folder, 1, Len(folder) - 1)
    ELSE folder

\* C5: every snapshot is a file inside the destination folder, whether or
\* not the folder was given with a trailing separator, and is named
\* img_<step>_<iteration>.jpg.
C5_SnapshotsInsideFolder ==
    \A p \in DOMAIN files :
        /\ Dirname(p) = FolderName(destination_folder)
        /\ \E st \in 0..step, it \in 1..iteration :
              Basename(p) = <<"img_", ToString(st), "_", ToString(it), ".jpg">>

(* ---- C6 ---- *)
PictureShape == <<1, picture_file.h, picture_file.w, Channels>>
PictureSize == picture_file.h * picture_file.w * Channels

\* C6 (as claimed): once fit has initialised the canvas, styled_image has in
\* every state the shape of picture_image and style_image, (1, H, W, 3).
C6_CanvasKeepsPictureShape ==
    (attrs /\ styled_image # NoneArr)
        => /\ styled_image.shape = picture_image.shape
           /\ styled_image.shape = style_image.shape
           /\ styled_image.shape = PictureShape

\* C6 (amended): picture_image and style_image have the shape (1, H, W, 3);
\* styled_image always holds H*W*3 values: it has the shape (1, H, W, 3)
\* when fit has initialised it and the flat shape (H*W*3,) after every
\* callback; every snapshot written has the shape (H, W, 3).
C6_CanvasKeepsPictureSize ==
    attrs =>
        /\ picture_image.shape = PictureShape
        /\ style_image.shape = PictureShape
        /\ Len(heap[picture_image.buf]) = PictureSize
        /\ Len(heap[style_image.buf]) = PictureSize
        /\ styled_image # NoneArr =>
              /\ Len(heap[styled_image.buf]) = PictureSize
              /\ styled_image.shape \in {PictureShape, <<PictureSize>>}
              /\ lastCall = "callback" => styled_image.shape = <<PictureSize>>
              /\ (lastCall = "fit" /\ error = "none") => styled_image.shape = PictureShape
        /\ \A p \in DOMAIN files :
              /\ files[p].shape = Tail(PictureShape)
              /\ Len(files[p].data) = PictureSize

C6_Witness ==
    /\ lastCall = "callback"
    /\ canvas = "custom"
    /\ picture_file.h = 2 /\ picture_file.w = 2
    /\ styled_image.shape = <<PictureSize>>
    /\ writes > 0

(* ---- C7 ---- *)
\* C7: once constructed, picture_image and style_image never change: no fit
\* call, evaluation, callback or snapshot alters a value of either array,
\* also when the canvas starts as a copy of one of them.
C7_PictureAndStyleImmutable ==
    [][attrs => /\ picture_image' = picture_image
                /\ style_image' = style_image
                /\ heap'[picture_image.buf] = heap[picture_image.buf]
                /\ heap'[style_image.buf] = heap[style_image.buf]]_vars

C7_Witness ==
    /\ lastCall = "save_image"
    /\ canvas = "style"
    /\ step = 0
    /\ writes = 1
    /\ heap[style_image.buf] = pre_process_image(LoadStyle(picture_file.h, picture_file.w).data)

(* ---- C8 ---- *)
\* C8: for canvas random_from_style (random_from_picture) fit succeeds for
\* every picture size, every pixel of the canvas is a copy of a pixel of the
\* style (picture) image, and the position of that pixel is drawn from all
\* H x W positions, those of the last row and the last column included.
C8_RandomFromDrawsEveryPosition ==
    (lastCall = "fit" /\ canvas \in {"random_from_style", "random_from_picture"})
        => /\ error = "none"
           /\ SourceRows(picture_file.h) = 0..(picture_file.h - 1)
           /\ SourceColumns(picture_file.w) = 0..(picture_file.w - 1)
           /\ LET src == IF canvas = "random_from_style" THEN heap[style_image.buf]
                         ELSE heap[picture_image.buf]
                  cvs == heap[styled_image.buf]
              IN  \A q \in 0..(picture_file.h * picture_file.w - 1) :
                     \E r \in 0..(picture_file.h * picture_file.w - 1) :
                        \A c \in 1..Channels :
                           cvs[q * Channels + c] = src[r * Channels + c]

(* ---- C9 ---- *)
\* C9: the canvas reaches the next minimize call through the callback only:
\* styled_image always holds the image of the latest callback (the canvas
\* as fit created it, if none happened since), minimize starts from that
\* image, and it is the image of the snapshot that ends every pass.
C9_CanvasCarriedByCallback ==
    /\ (attrs /\ styled_image # NoneArr) => heap[styled_image.buf] = carried
    /\ lastCall = "minimize" => (x0 = carried /\ heap[xk.buf] = carried)
    /\ lastCall = "save_image" =>
          LET p == destination_folder
                       \o <<"img_", ToString(step), "_", ToString(iteration), ".jpg">>
          IN  /\ p \in DOMAIN files
              /\ files[p].data = ClipFlip(AddMeans(carried))

C9_Witness ==
    /\ lastCall = "save_image"
    /\ iteration = 2
    /\ step = 1
    /\ remaining = 0
    /\ styled_image.shape = <<PictureSize>>
    /\ canvas = "random"

(* ---- C10 ---- *)
\* C10: with save_every_n_steps >= 1, a snapshot file is never rewritten
\* with another image, over any sequence of fit calls; step and iteration
\* never decrease, and iteration grows by exactly one with each minimize
\* call and at no other time.
C10_SnapshotsNeverOverwritten ==
    [][(attrs /\ save_every_n_steps >= 1)
        => /\ \A p \in DOMAIN files : p \in DOMAIN files' /\ files'[p] = files[p]
           /\ step' >= step
           /\ iteration' >= iteration
           /\ lastCall' = "minimize" => iteration' = iteration + 1
           /\ iteration' # iteration => lastCall' = "minimize"]_vars

C10_Witness ==
    /\ save_every_n_steps >= 1
    /\ iteration = 2
    /\ writes > Cardinality(DOMAIN files)
    /\ lastCall = "save_image"

====
